---- MODULE Spec2Model ----
(***************************************************************************)
(* The PRPM plugin helper of src/.opencode/plugin/index.ts: the wildcard   *)
(* event-name matcher (matchesFilter), the event hook with its prpm:       *)
(* commands, the two tool hooks, and the host's listeners that call the    *)
(* matcher with their own pattern sets.  The repository also holds an      *)
(* earlier source of the same plugin (src/unnamed/part_001, "legacy"):     *)
(* the variable variant says which of the two the host has loaded.         *)
(*                                                                         *)
(* Strings are TLA+ strings; the JavaScript string methods the code uses   *)
(* (slice, startsWith, endsWith) are operators with the methods' meaning.  *)
(***************************************************************************)
EXTENDS Integers, Sequences, FiniteSets, TLC

(***************************************************************************)
(* Bounds of the model.                                                    *)
(***************************************************************************)
\* Longest generated string (event name or pattern) over Alphabet.
MaxStrLen == 3
\* Longest pattern sequence handed to the matcher.
MaxPatterns == 3
\* Number of host listeners that call the matcher.
NumListeners == 2

(***************************************************************************)
(* State.                                                                  *)
(***************************************************************************)
VARIABLES
    variant,    \* which source of the plugin is loaded: "current" (index.ts) or "legacy"
    env,        \* process.env.PRPM_PLUGIN_DEBUG: << >> if unset, else <<value>>
    debug,      \* config.debug
    logEvents,  \* config.logEvents
    templates,  \* the PLUGIN_TEMPLATES object
    catalogue,  \* the OPENCODE_EVENTS object
    out,        \* the console lines of the most recent hook call (or of start-up)
    raised,     \* "none", or the error the most recent hook call threw
    filters,    \* filters[l]: the pattern set listener l is configured with
    dispatched, \* dispatched[l]: the event name the host last handed to listener l
    calls       \* calls[l]: listener l's current call of matchesFilter

vars == <<variant, env, debug, logEvents, templates, catalogue, out, raised, filters, dispatched, calls>>

pluginVars == <<variant, env, debug, logEvents, templates, catalogue, out, raised>>

Listeners == 1..NumListeners

Min(a, b) == IF a <= b THEN a ELSE b
Max(a, b) == IF a >= b THEN a ELSE b

(***************************************************************************)
(* JavaScript string methods.                                              *)
(***************************************************************************)
\* s.slice(start, end): negative indices count from the end, both clamped.
Slice(s, start, end) ==
    LET n    == Len(s)
        from == IF start < 0 THEN Max(n + start, 0) ELSE Min(start, n)
        to   == IF end < 0 THEN Max(n + end, 0) ELSE Min(end, n)
    IN  IF from >= to THEN "" ELSE SubSeq(s, from + 1, to)

\* s.slice(start)
SliceFrom(s, start) == Slice(s, start, Len(s))

\* s.startsWith(q)
StartsWith(s, q) == Len(q) <= Len(s) /\ SubSeq(s, 1, Len(q)) = q

\* s.endsWith(q)
EndsWith(s, q) == Len(q) <= Len(s) /\ SubSeq(s, Len(s) - Len(q) + 1, Len(s)) = q

(***************************************************************************)
(* OPENCODE_EVENTS: the catalogue, in the object's insertion order.        *)
(***************************************************************************)
OPENCODE_EVENTS ==
    << [category |-> "command",      events |-> <<"command.executed">>],
       [category |-> "file",         events |-> <<"file.edited", "file.watcher.updated">>],
       [category |-> "installation", events |-> <<"installation.updated">>],
       [category |-> "lsp",          events |-> <<"lsp.client.diagnostics", "lsp.updated">>],
       [category |-> "message",      events |-> <<"message.part.removed", "message.part.updated",
                                                  "message.removed", "message.updated">>],
       [category |-> "permission",   events |-> <<"permission.replied", "permission.updated">>],
       [category |-> "server",       events |-> <<"server.connected">>],
       [category |-> "session",      events |-> <<"session.created", "session.compacted",
                                                  "session.deleted", "session.diff",
                                                  "session.error", "session.idle",
                                                  "session.status", "session.updated">>],
       [category |-> "todo",         events |-> <<"todo.updated">>],
       [category |-> "tool",         events |-> <<"tool.execute.before", "tool.execute.after">>],
       [category |-> "tui",          events |-> <<"tui.prompt.append", "tui.command.execute",
                                                  "tui.toast.show">>] >>

\* The event names of one category of a catalogue.
EventsOfCategory(cat, c) ==
    UNION { {cat[k].events[j] : j \in 1..Len(cat[k].events)} :
            k \in {k \in 1..Len(cat) : cat[k].category = c} }

RECURSIVE FlatEvents(_)
\* Object.values(OPENCODE_EVENTS).flat()
FlatEvents(cat) ==
    IF Len(cat) = 0 THEN << >> ELSE cat[1].events \o FlatEvents(Tail(cat))

\* The event names of a catalogue, as a set.
KnownEvents(cat) == {FlatEvents(cat)[k] : k \in 1..Len(FlatEvents(cat))}

(***************************************************************************)
(* matchesFilter.                                                          *)
(***************************************************************************)
\* A mutant of the callback: the prefix test leaves the separating dot out.
PatternMatchesNoDot(eventType, pattern) ==
    IF pattern = "*" THEN TRUE
    ELSE IF EndsWith(pattern, ".*")
         THEN LET prefix == Slice(pattern, 0, -2)
              IN  StartsWith(eventType, prefix)
         ELSE eventType = pattern

\* A mutant of the callback: exact patterns match as prefixes of the name.
PatternMatchesPrefixExact(eventType, pattern) ==
    IF pattern = "*" THEN TRUE
    ELSE IF EndsWith(pattern, ".*")
         THEN LET prefix == Slice(pattern, 0, -2)
              IN  StartsWith(eventType, prefix \o ".")
         ELSE StartsWith(eventType, pattern)

\* A mutant of the callback: any pattern that ends in "*" is a wildcard.
PatternMatchesStarSuffix(eventType, pattern) ==
    IF EndsWith(pattern, "*") THEN TRUE
    ELSE eventType = pattern

\* A mutant of the callback: "*" has no special meaning.
PatternMatchesNoStar(eventType, pattern) ==
    IF EndsWith(pattern, ".*")
    THEN LET prefix == Slice(pattern, 0, -2)
         IN  StartsWith(eventType, prefix \o ".")
    ELSE eventType = pattern

\* A mutant of the callback: the result depends on the plugin's debug flag
\* ("*" selects every event only while debug logging is on).
PatternMatchesWhenDebug(eventType, pattern) ==
    IF pattern = "*" THEN debug
    ELSE IF EndsWith(pattern, ".*")
         THEN LET prefix == Slice(pattern, 0, -2)
              IN  StartsWith(eventType, prefix \o ".")
         ELSE eventType = pattern

\* The callback handed to patterns.some: does one pattern match the name?
PatternMatches(eventType, pattern) ==
    IF pattern = "*" THEN TRUE
    ELSE IF EndsWith(pattern, ".*")
         THEN LET prefix == Slice(pattern, 0, -2)
              IN  StartsWith(eventType, prefix \o ".")
         ELSE eventType = pattern

\* The activation record of one call matchesFilter(eventType, patterns):
\* index is the position patterns.some has reached (0-based, as in JS).
NewCall(eventType, patterns) ==
    [eventType |-> eventType, patterns |-> patterns, index |-> 0,
     status |-> "running", result |-> FALSE]

IdleCall ==
    [eventType |-> "", patterns |-> << >>, index |-> 0,
     status |-> "idle", result |-> FALSE]

\* A mutant of patterns.some: only the first pattern is examined.
SomeStepFirstOnly(call) ==
    IF call.index >= Len(call.patterns) \/ call.index >= 1
    THEN [call EXCEPT !.status = "done", !.result = FALSE]
    ELSE IF PatternMatches(call.eventType, call.patterns[call.index + 1])
         THEN [call EXCEPT !.status = "done", !.result = TRUE]
         ELSE [call EXCEPT !.index = call.index + 1]

\* A mutant of patterns.some: patterns.every, all patterns have to match.
SomeStepEvery(call) ==
    IF call.index >= Len(call.patterns)
    THEN [call EXCEPT !.status = "done", !.result = TRUE]
    ELSE IF PatternMatches(call.eventType, call.patterns[call.index + 1])
         THEN [call EXCEPT !.index = call.index + 1]
         ELSE [call EXCEPT !.status = "done", !.result = FALSE]

\* A mutant of patterns.some: the iteration consumes the array (shift()).
SomeStepConsuming(call) ==
    IF Len(call.patterns) = 0
    THEN [call EXCEPT !.status = "done", !.result = FALSE]
    ELSE IF PatternMatches(call.eventType, call.patterns[1])
         THEN [call EXCEPT !.status = "done", !.result = TRUE]
         ELSE [call EXCEPT !.patterns = Tail(call.patterns)]

\* A mutant of patterns.some: no short-circuit, the last callback result wins.
SomeStepLastWins(call) ==
    IF call.index >= Len(call.patterns)
    THEN [call EXCEPT !.status = "done"]
    ELSE [call EXCEPT !.index = call.index + 1,
                      !.result = PatternMatches(call.eventType, call.patterns[call.index + 1])]

\* One iteration of patterns.some(callback): past the end the call returns
\* false, a matching pattern returns true at once, otherwise move on.
SomeStep(call) ==
    IF call.index >= Len(call.patterns)
    THEN [call EXCEPT !.status = "done", !.result = FALSE]
    ELSE IF PatternMatches(call.eventType, call.patterns[call.index + 1])
         THEN [call EXCEPT !.status = "done", !.result = TRUE]
         ELSE [call EXCEPT !.index = call.index + 1]

RECURSIVE RunCall(_)
RunCall(call) == IF call.status = "done" THEN call.result ELSE RunCall(SomeStep(call))

\* matchesFilter(eventType, patterns) run to completion.
matchesFilter(eventType, patterns) == RunCall(NewCall(eventType, patterns))

(***************************************************************************)
(* matchesFilter of the legacy source (src/unnamed/part_001).              *)
(***************************************************************************)
\* A mutant of the legacy callback: slice(0, -1) keeps the dot of ".*", and a
\* second dot is appended.
LegacyPatternMatchesSliceOne(eventType, pattern) ==
    IF pattern = "*" THEN TRUE
    ELSE IF EndsWith(pattern, ".*")
         THEN LET prefix == Slice(pattern, 0, -1)
              IN  StartsWith(eventType, prefix \o ".")
         ELSE eventType = pattern

\* The callback of the legacy matchesFilter.
LegacyPatternMatches(eventType, pattern) ==
    IF pattern = "*" THEN TRUE
    ELSE IF EndsWith(pattern, ".*")
         THEN LET prefix == Slice(pattern, 0, -2)
              IN  StartsWith(eventType, prefix \o ".")
         ELSE eventType = pattern

\* The legacy matchesFilter: patterns.some(callback).
LegacyMatchesFilter(eventType, patterns) ==
    \E k \in 1..Len(patterns) : LegacyPatternMatches(eventType, patterns[k])

(***************************************************************************)
(* Values of the host's events.  A value of unknown type is a record       *)
(* [kind, text]; event.data is absent, null, or an object whose command    *)
(* property is such a value.                                               *)
(***************************************************************************)
Undefined == [kind |-> "undefined", text |-> ""]
Str(s) == [kind |-> "string", text |-> s]
Num(s) == [kind |-> "number", text |-> s]

NoData == [kind |-> "undefined", command |-> Undefined]
NullData == [kind |-> "null", command |-> Undefined]
Obj(command) == [kind |-> "object", command |-> command]

\* JavaScript truthiness of event.data and of a looked-up template.
Truthy(v) == v.kind \in {"object", "function"} \/ (v.kind = "string" /\ v.text # "")

\* JSON.stringify(data) of an object with at most a command property.
JSONStringify(data) ==
    IF data.command.kind = "undefined" THEN "{}"
    ELSE IF data.command.kind = "string"
         THEN "{\"command\":\"" \o data.command.text \o "\"}"
         ELSE "{\"command\":" \o data.command.text \o "}"

\* The number of characters of the JSON text formatEvent keeps.
DataPreviewLen == 100

\* A mutant of formatEvent: "..." is appended only when the JSON text was cut.
formatEventEllipsisWhenCut(event) ==
    LET json == JSONStringify(event.data)
        dataStr == IF Truthy(event.data)
                   THEN " " \o Slice(json, 0, DataPreviewLen)
                            \o (IF Len(json) > DataPreviewLen THEN "..." ELSE "")
                   ELSE ""
    IN  "[PRPM Debug] " \o event.type \o dataStr

\* formatEvent(event) of the legacy source.
LegacyFormatEvent(event) ==
    LET dataStr == IF Truthy(event.data)
                   THEN " " \o Slice(JSONStringify(event.data), 0, DataPreviewLen) \o "..."
                   ELSE ""
    IN  "[PRPM Debug] " \o event.type \o dataStr

\* formatEvent(event)
formatEvent(event) ==
    LET dataStr == IF Truthy(event.data)
                   THEN " " \o Slice(JSONStringify(event.data), 0, DataPreviewLen) \o "..."
                   ELSE ""
    IN  "[PRPM Debug] " \o event.type \o dataStr

(***************************************************************************)
(* PLUGIN_TEMPLATES: the registry in insertion order.  Each text is        *)
(* abbreviated to the last line of the template's source text.             *)
(***************************************************************************)
PLUGIN_TEMPLATES ==
    << [name |-> "basic",        text |-> "export default MyPlugin;"],
       [name |-> "security",     text |-> "export default SecurityPlugin;"],
       [name |-> "notification", text |-> "export default NotifyPlugin;"],
       [name |-> "custom-tool",  text |-> "export default CustomToolPlugin;"],
       [name |-> "logging",      text |-> "export default LoggingPlugin;"] >>

\* PLUGIN_TEMPLATES of the legacy source: the same keys in the same order,
\* each text abbreviated to the first line of the template's source text.
LEGACY_PLUGIN_TEMPLATES ==
    << [name |-> "basic",
        text |-> "export const MyPlugin = async ({ project, client, $, directory, worktree }) => {"],
       [name |-> "security",     text |-> "export const SecurityPlugin = async ({ project }) => {"],
       [name |-> "notification", text |-> "export const NotifyPlugin = async ({ $ }) => {"],
       [name |-> "custom-tool",  text |-> "import { tool } from \"@opencode-ai/plugin\";"],
       [name |-> "logging",
        text |-> "export const LoggingPlugin = async ({ project, directory }) => {"] >>

Variants == {"current", "legacy"}

\* The registry the loaded source defines.
TemplatesOf(v) == IF v = "legacy" THEN LEGACY_PLUGIN_TEMPLATES ELSE PLUGIN_TEMPLATES

\* A mutant of Object.keys: the keys in reverse order.
ObjectKeysReversed(registry) ==
    [k \in 1..Len(registry) |-> registry[Len(registry) - k + 1].name]

\* Object.keys(registry), in order.
ObjectKeys(registry) == [k \in 1..Len(registry) |-> registry[k].name]

\* Properties every plain object inherits from Object.prototype.
ObjectPrototypeKeys ==
    {"constructor", "toString", "toLocaleString", "valueOf", "hasOwnProperty",
     "isPrototypeOf", "propertyIsEnumerable", "__proto__"}

\* A mutant of the lookup: a key other than the first falls back to the
\* first template.
PropertyGetDefault(registry, name) ==
    IF \E k \in 1..Len(registry) : registry[k].name = name
    THEN Str(registry[1].text)
    ELSE Undefined

\* registry[name]: an own property, else an inherited one, else undefined.
PropertyGet(registry, name) ==
    IF \E k \in 1..Len(registry) : registry[k].name = name
    THEN Str(registry[CHOOSE k \in 1..Len(registry) : registry[k].name = name].text)
    ELSE IF name = "__proto__" THEN [kind |-> "object", text |-> "[Object: null prototype] {}"]
    ELSE IF name = "constructor" THEN [kind |-> "function", text |-> "[Function: Object]"]
    ELSE IF name \in ObjectPrototypeKeys
         THEN [kind |-> "function", text |-> "[Function: " \o name \o "]"]
    ELSE Undefined

RECURSIVE Join(_, _)
\* array.join(sep)
Join(seq, sep) ==
    IF Len(seq) = 0 THEN ""
    ELSE IF Len(seq) = 1 THEN seq[1]
    ELSE seq[1] \o sep \o Join(Tail(seq), sep)

RECURSIVE EventsListing(_)
\* The lines prpm:events prints for the categories of a catalogue.
EventsListing(cat) ==
    IF Len(cat) = 0 THEN << >>
    ELSE << "\n" \o cat[1].category \o ":" >>
         \o [j \in 1..Len(cat[1].events) |-> "  - " \o cat[1].events[j]]
         \o EventsListing(Tail(cat))

(***************************************************************************)
(* Inputs.                                                                 *)
(***************************************************************************)
Alphabet == {"a", ".", "*"}

RECURSIVE StringsUpTo(_)
\* Every string over Alphabet of at most n characters.
StringsUpTo(n) ==
    IF n = 0 THEN {""}
    ELSE LET S == StringsUpTo(n - 1) IN S \cup {s \o c : s \in S, c \in Alphabet}

\* Event names the host may emit: the catalogue, names that are near misses
\* of a pattern, and every short string.
ExampleEvents ==
    {"tool.x", "tool.", "tool", "toolbox.run", "toolkit.run", "session.idle2",
     "session", "session.", "file", "file.", "filed.x", "idle", "x.session.idle",
     "*", ".*", "**", "*.idle", "tool.*", "tool.*.before", "to*l", "tool.*.", "."}

ExamplePatterns ==
    {"*", "tool.*", "file.*", "session.*", "session.idle", "tool", "tool.",
     "tool.execute.*", "tool.execute.before", "", ".*", "**", "*.idle",
     "tool.*.before", "to*l", "*.*", "..*", "tool*", "tool.**"}

EventNames == KnownEvents(OPENCODE_EVENTS) \cup ExampleEvents \cup StringsUpTo(MaxStrLen)

Patterns == ExamplePatterns \cup StringsUpTo(MaxStrLen)

\* The patterns that pattern sequences of more than one element are built of,
\* and the event names they are matched against.
ListPatterns == {"*", "a.*", "a.a", "file.*", "session.idle"}

ListEvents ==
    KnownEvents(OPENCODE_EVENTS) \cup {"file", "file.", "session.idle2", "a.a", "a.", "a", "aa.a"}

SeqsUpTo(S, n) == UNION {[1..k -> S] : k \in 0..n}

\* The inputs (eventType, patterns) of the matcher.
MatchInputs ==
    (EventNames \X SeqsUpTo(Patterns, 1))
        \cup (ListEvents \X SeqsUpTo(ListPatterns, MaxPatterns))

\* The pattern sets listeners are configured with and the events they get.
ListenerFilters == {<<"file.*", "session.idle">>, <<"tool.*", "*">>}

ListenerEvents == {"file.edited", "session.created"}

\* The values of PRPM_PLUGIN_DEBUG.
EnvValues == {<< >>, <<"true">>, <<"1">>, <<"TRUE">>, <<"">>}

\* A command longer than the preview formatEvent keeps.
LongCommand ==
    "prpm:template:" \o Join([k \in 1..10 |-> "0123456789"], "")

Commands ==
    {"prpm:events", "prpm:debug:on", "prpm:debug:off", "prpm:templates",
     "prpm:template:basic", "prpm:template:security", "prpm:template:notification",
     "prpm:template:custom-tool", "prpm:template:logging",
     "prpm:template:nope", "prpm:template:", "prpm:template:Basic",
     "prpm:template:constructor", "prpm:template:toString",
     "prpm:foo", "prpm:template", "prpm:", "session.compact", LongCommand,
     "prpm:debug:onx", "prpm:debug:offx",
     SubSeq(LongCommand, 15, 100), SubSeq(LongCommand, 15, 101)}

\* The events the host hands to the event hook.
HostEvents ==
    {[type |-> "tui.command.execute", data |-> Obj(Str(c))] : c \in Commands}
        \cup {[type |-> "tui.command.execute", data |-> d] :
                 d \in {NoData, NullData, Obj(Undefined), Obj(Num("7"))}}
        \cup {[type |-> t, data |-> d] :
                 t \in {"session.idle", "file.edited"},
                 d \in {NoData, Obj(Undefined), Obj(Str("prpm:debug:on")),
                        Obj(Str("prpm:debug:off"))}}

ToolNames == {"bash", "read"}

(***************************************************************************)
(* The plugin: construction and hooks.                                     *)
(***************************************************************************)
\* The context the host constructs the plugin with.
Context == [projectName |-> Undefined, directory |-> "/work"]

\* project?.name || directory
ProjectLabel(context) ==
    IF Truthy(context.projectName) THEN context.projectName.text ELSE context.directory

\* The console lines of the plugin's construction.
StartupLines(context, dbg, cat) ==
    << "[PRPM Plugin Helper] Initialized for " \o ProjectLabel(context) >>
    \o (IF dbg
        THEN << "[PRPM Plugin Helper] Debug mode enabled",
                "[PRPM Plugin Helper] Available events: [ "
                    \o Join(FlatEvents(cat), ", ") \o " ]" >>
        ELSE << >>)

\* A mutant of the construction: any value of PRPM_PLUGIN_DEBUG that is set
\* and not empty turns debug on.
InitPluginOfAnyValue(vs, values) ==
    /\ variant \in vs
    /\ env \in values
    /\ debug = (env # << >> /\ env # <<"">>)
    /\ logEvents = <<"*">>
    /\ templates = TemplatesOf(variant)
    /\ catalogue = OPENCODE_EVENTS
    /\ out = StartupLines(Context, env # << >> /\ env # <<"">>, OPENCODE_EVENTS)
    /\ raised = "none"

\* The plugin of one of the sources vs after construction, PRPM_PLUGIN_DEBUG
\* being one of values.
InitPluginOf(vs, values) ==
    /\ variant \in vs
    /\ env \in values
    /\ debug = (env = <<"true">>)
    /\ logEvents = <<"*">>
    /\ templates = TemplatesOf(variant)
    /\ catalogue = OPENCODE_EVENTS
    /\ out = StartupLines(Context, env = <<"true">>, OPENCODE_EVENTS)
    /\ raised = "none"

\* The plugin of index.ts after construction.
InitPlugin(values) == InitPluginOf({"current"}, values)

\* The plugin alone: no listener of the host is active.
Init ==
    /\ InitPluginOf(Variants, EnvValues)
    /\ filters = [l \in Listeners |-> <<"*">>]
    /\ dispatched = [l \in Listeners |-> ""]
    /\ calls = [l \in Listeners |-> IdleCall]

\* The lines prpm:template:<name> prints.
TemplateLines(registry, templateName) ==
    LET template == PropertyGet(registry, templateName)
    IN  IF Truthy(template)
        THEN << "\n=== Template: " \o templateName \o " ===\n",
                template.text,
                "\n=== End Template ===" >>
        ELSE << "[PRPM] Unknown template: " \o templateName,
                "Available templates: " \o Join(ObjectKeys(registry), ", ") >>

\* A mutant of the switch: debug:on and debug:off are matched as prefixes.
SubCommandEffectPrefix(subCommand) ==
    IF subCommand = "events"
    THEN [lines |-> << "\n=== Available OpenCode Events ===" >> \o EventsListing(catalogue),
          debug |-> debug]
    ELSE IF StartsWith(subCommand, "debug:on")
    THEN [lines |-> << "[PRPM] Debug mode enabled" >>, debug |-> TRUE]
    ELSE IF StartsWith(subCommand, "debug:off")
    THEN [lines |-> << "[PRPM] Debug mode disabled" >>, debug |-> FALSE]
    ELSE IF subCommand = "templates"
    THEN [lines |-> << "\n=== Available Plugin Templates ===" >>
                    \o [k \in 1..Len(templates) |-> "  - " \o ObjectKeys(templates)[k]]
                    \o << "\nUse prpm:template:<name> to view a template" >>,
          debug |-> debug]
    ELSE IF StartsWith(subCommand, "template:")
    THEN [lines |-> TemplateLines(templates, SliceFrom(subCommand, 9)), debug |-> debug]
    ELSE [lines |-> << >>, debug |-> debug]

\* The switch over the subcommand: the lines printed and the debug flag after.
SubCommandEffect(subCommand) ==
    IF subCommand = "events"
    THEN [lines |-> << "\n=== Available OpenCode Events ===" >> \o EventsListing(catalogue),
          debug |-> debug]
    ELSE IF subCommand = "debug:on"
    THEN [lines |-> << "[PRPM] Debug mode enabled" >>, debug |-> TRUE]
    ELSE IF subCommand = "debug:off"
    THEN [lines |-> << "[PRPM] Debug mode disabled" >>, debug |-> FALSE]
    ELSE IF subCommand = "templates"
    THEN [lines |-> << "\n=== Available Plugin Templates ===" >>
                    \o [k \in 1..Len(templates) |-> "  - " \o ObjectKeys(templates)[k]]
                    \o << "\nUse prpm:template:<name> to view a template" >>,
          debug |-> debug]
    ELSE IF StartsWith(subCommand, "template:")
    THEN [lines |-> TemplateLines(templates, SliceFrom(subCommand, 9)), debug |-> debug]
    ELSE [lines |-> << >>, debug |-> debug]

\* The switch over the subcommand in the legacy source: debug:on and
\* debug:off only print, and there is no prpm:template:<name>.
LegacySubCommandEffect(subCommand) ==
    IF subCommand = "events"
    THEN [lines |-> << "\n=== Available OpenCode Events ===" >> \o EventsListing(catalogue),
          debug |-> debug]
    ELSE IF subCommand = "templates"
    THEN [lines |-> << "\n=== Available Plugin Templates ===" >>
                    \o [k \in 1..Len(templates) |-> "  - " \o ObjectKeys(templates)[k]]
                    \o << "\nUse /create-plugin <template> to scaffold" >>,
          debug |-> debug]
    ELSE IF subCommand = "debug:on"
    THEN [lines |-> << "[PRPM] Debug mode enabled" >>, debug |-> debug]
    ELSE IF subCommand = "debug:off"
    THEN [lines |-> << "[PRPM] Debug mode disabled" >>, debug |-> debug]
    ELSE [lines |-> << >>, debug |-> debug]

\* A mutant of the command part: the event type is not looked at.
CommandEffectAnyType(event) ==
    LET command == IF event.data.kind = "object" THEN event.data.command ELSE Undefined
        nothing == [lines |-> << >>, debug |-> debug, raised |-> "none"]
    IN  IF command.kind = "undefined" THEN nothing
        ELSE IF command.kind # "string"
             THEN [lines |-> << >>, debug |-> debug, raised |-> "TypeError"]
        ELSE IF ~StartsWith(command.text, "prpm:") THEN nothing
        ELSE LET eff == SubCommandEffect(SliceFrom(command.text, 5))
             IN  [lines |-> eff.lines, debug |-> eff.debug, raised |-> "none"]

\* The command part of the event hook: lines printed, debug flag after, and
\* the error thrown (command?.startsWith on a value that is not a string).
CommandEffect(event) ==
    LET command == IF event.data.kind = "object" THEN event.data.command ELSE Undefined
        nothing == [lines |-> << >>, debug |-> debug, raised |-> "none"]
    IN  IF event.type # "tui.command.execute" THEN nothing
        ELSE IF command.kind = "undefined" THEN nothing
        ELSE IF command.kind # "string"
             THEN [lines |-> << >>, debug |-> debug, raised |-> "TypeError"]
        ELSE IF ~StartsWith(command.text, "prpm:") THEN nothing
        ELSE LET subCommand == SliceFrom(command.text, 5)
                 eff == IF variant = "legacy"
                        THEN LegacySubCommandEffect(subCommand)
                        ELSE SubCommandEffect(subCommand)
             IN  [lines |-> eff.lines, debug |-> eff.debug, raised |-> "none"]

\* A mutant of the debug log: the debug flag is not looked at.
DebugLinesAlways(event) == << formatEvent(event) >>

\* The lines the debug log of the event hook prints (the legacy source
\* passes config.logEvents || ["*"], and an array is always truthy).
DebugLines(event) ==
    IF debug /\ (IF variant = "legacy"
                 THEN LegacyMatchesFilter(event.type, logEvents)
                 ELSE matchesFilter(event.type, logEvents))
    THEN << IF variant = "legacy" THEN LegacyFormatEvent(event) ELSE formatEvent(event) >>
    ELSE << >>

\* A mutant of the event hook: the command is applied first, and the debug
\* log looks at the flag the command left.
EventHookCommandFirst(event) ==
    LET eff == CommandEffect(event)
    IN  /\ out' = eff.lines \o (IF eff.debug /\ matchesFilter(event.type, logEvents)
                                THEN << formatEvent(event) >>
                                ELSE << >>)
        /\ debug' = eff.debug
        /\ raised' = eff.raised
        /\ UNCHANGED <<variant, env, logEvents, templates, catalogue, filters, dispatched, calls>>

\* A mutant of the event hook: a template name that is looked up and not
\* found is entered in the registry with an empty text.
EventHookRegistering(event) ==
    LET eff == CommandEffect(event)
        command == event.data.command
        name == SliceFrom(command.text, 14)
        lookup == /\ event.type = "tui.command.execute" /\ event.data.kind = "object"
                  /\ command.kind = "string" /\ StartsWith(command.text, "prpm:template:")
    IN  /\ out' = DebugLines(event) \o eff.lines
        /\ debug' = eff.debug
        /\ raised' = eff.raised
        /\ templates' = IF lookup /\ ~Truthy(PropertyGet(templates, name))
                        THEN Append(templates, [name |-> name, text |-> ""])
                        ELSE templates
        /\ UNCHANGED <<variant, env, logEvents, catalogue, filters, dispatched, calls>>

\* event: async ({ event }) => { ... }
EventHook(event) ==
    LET eff == CommandEffect(event)
    IN  /\ out' = DebugLines(event) \o eff.lines
        /\ debug' = eff.debug
        /\ raised' = eff.raised
        /\ UNCHANGED <<variant, env, logEvents, templates, catalogue, filters, dispatched, calls>>

\* "tool.execute.before": async (input, output) => { ... }
ToolExecuteBefore(tool) ==
    /\ out' = IF debug THEN << "[PRPM Debug] Tool Before: " \o tool \o " {}" >> ELSE << >>
    /\ raised' = "none"
    /\ UNCHANGED <<variant, env, debug, logEvents, templates, catalogue, filters, dispatched, calls>>

\* "tool.execute.after": async (input, output) => { ... }; the legacy source
\* declares (result) and reads result.duration and result.success of the
\* host's input object, which has neither.
ToolExecuteAfter(tool, title) ==
    /\ out' = IF ~debug THEN << >>
              ELSE IF variant = "legacy"
                   THEN << "[PRPM Debug] Tool After: " \o tool \o " (undefinedms, failed)" >>
                   ELSE << "[PRPM Debug] Tool After: " \o tool \o " - " \o title >>
    /\ raised' = "none"
    /\ UNCHANGED <<variant, env, debug, logEvents, templates, catalogue, filters, dispatched, calls>>

(***************************************************************************)
(* The host's listeners: for an event it emits the host calls              *)
(* matchesFilter(name, filters[l]) for listener l.  A call advances one    *)
(* callback invocation at a time, so calls of different listeners          *)
(* interleave in every order.                                              *)
(***************************************************************************)
\* A mutant of the activation record: every caller shares listener 1's.
CallOfShared(l) == calls[1]

\* The activation record of listener l's call: its own eventType, patterns
\* and position.
CallOf(l) == calls[l]

\* The host emits eventName and listener l starts matching it.
Dispatch(l, eventName) ==
    /\ calls[l].status # "running"
    /\ dispatched' = [dispatched EXCEPT ![l] = eventName]
    /\ calls' = [calls EXCEPT ![l] = NewCall(eventName, filters[l])]
    /\ UNCHANGED <<pluginVars, filters>>

\* Listener l's call runs one iteration of patterns.some.
CallbackStep(l) ==
    /\ calls[l].status = "running"
    /\ calls' = [calls EXCEPT ![l] = SomeStep(CallOf(l))]
    /\ UNCHANGED <<pluginVars, filters, dispatched>>

\* The plugin alone: the host calls its hooks in any order.
Next ==
    \/ \E event \in HostEvents : EventHook(event)
    \/ \E tool \in ToolNames : ToolExecuteBefore(tool)
    \/ \E tool \in ToolNames : ToolExecuteAfter(tool, "done")

Spec == Init /\ [][Next]_vars

(***************************************************************************)
(* The plugin together with the host's listeners: hook calls and the       *)
(* listeners' matcher calls interleave.                                    *)
(***************************************************************************)
\* The events the event hook gets while listeners are matching.
HostEventsWhileMatching ==
    {[type |-> "tui.command.execute", data |-> Obj(Str(c))] :
        c \in {"prpm:debug:on", "prpm:debug:off", "prpm:templates"}}
        \cup {[type |-> "session.idle", data |-> NoData]}

InitHost ==
    /\ InitPlugin({<< >>, <<"true">>})
    /\ filters \in [Listeners -> ListenerFilters]
    /\ dispatched = [l \in Listeners |-> ""]
    /\ calls = [l \in Listeners |-> IdleCall]

NextHost ==
    \/ \E event \in HostEventsWhileMatching : EventHook(event)
    \/ \E tool \in ToolNames : ToolExecuteBefore(tool)
    \/ \E tool \in ToolNames : ToolExecuteAfter(tool, "done")
    \/ \E l \in Listeners, eventName \in ListenerEvents : Dispatch(l, eventName)
    \/ \E l \in Listeners : CallbackStep(l)

SpecHost == InitHost /\ [][NextHost]_vars

(***************************************************************************)
(* The matcher alone: one call on every input of MatchInputs.              *)
(***************************************************************************)
InitMatch ==
    /\ InitPlugin({<< >>})
    /\ \E input \in MatchInputs :
          /\ filters = [l \in Listeners |-> IF l = 1 THEN input[2] ELSE << >>]
          /\ dispatched = [l \in Listeners |-> IF l = 1 THEN input[1] ELSE ""]
          /\ calls = [l \in Listeners |->
                         IF l = 1 THEN NewCall(input[1], input[2]) ELSE IdleCall]

NextMatch == \E l \in Listeners : CallbackStep(l)

SpecMatch == InitMatch /\ [][NextMatch]_vars

(***************************************************************************)
(* Properties of the matcher, stated on the call of listener 1 under       *)
(* SpecMatch.  The helpers below say "prefix", "ends in .*" and "first     *)
(* segment" without the operators the model of the code uses.              *)
(***************************************************************************)
\* The inputs and the outcome of listener 1's call.
GivenEvent == dispatched[1]
GivenPatterns == filters[1]
Returned == calls[1].status = "done"
Result == calls[1].result

HasPrefix(e, q) == \E k \in 0..Len(e) : SubSeq(e, 1, k) = q

EndsInDotStar(p) == Len(p) >= 2 /\ SubSeq(p, Len(p) - 1, Len(p)) = ".*"

\* What precedes the final ".*" of a pattern.
Stem(p) == SubSeq(p, 1, Len(p) - 2)

DotFree(s) == \A k \in 1..Len(s) : SubSeq(s, k, k) # "."

FirstSegment(e) ==
    LET dots == {k \in 1..Len(e) : SubSeq(e, k, k) = "."}
    IN  IF dots = {} THEN e
        ELSE SubSeq(e, 1, (CHOOSE k \in dots : \A j \in dots : k <= j) - 1)

Range(seq) == {seq[k] : k \in 1..Len(seq)}

\* C1: a call returns true if and only if at least one of its patterns matches
\* the event name on its own, and so the result for a concatenation P ++ Q is
\* the OR of the results for P and for Q (for every split of the sequence).
C1_AnyPattern ==
    Returned =>
        /\ Result = (\E k \in 1..Len(GivenPatterns) :
                        matchesFilter(GivenEvent, <<GivenPatterns[k]>>))
        /\ \A k \in 0..Len(GivenPatterns) :
              Result = (\/ matchesFilter(GivenEvent, SubSeq(GivenPatterns, 1, k))
                        \/ matchesFilter(GivenEvent,
                                         SubSeq(GivenPatterns, k + 1, Len(GivenPatterns))))

\* Only the last of three patterns matches, and the call returns true.
C1_Witness ==
    /\ Returned /\ Result
    /\ Len(GivenPatterns) = 3
    /\ ~matchesFilter(GivenEvent, <<GivenPatterns[1]>>)
    /\ ~matchesFilter(GivenEvent, <<GivenPatterns[2]>>)

\* C2: a pattern sequence that contains "*" at any position matches every
\* event name, whatever its other patterns are.
C2_StarMatchesAll ==
    (Returned /\ \E k \in 1..Len(GivenPatterns) : GivenPatterns[k] = "*") => Result

\* "*" is the last of three patterns and the two before it were examined and
\* did not match.
C2_Witness ==
    /\ Returned /\ Result
    /\ Len(GivenPatterns) = 3 /\ GivenPatterns[3] = "*"
    /\ GivenPatterns[1] # "*" /\ GivenPatterns[2] # "*"
    /\ calls[1].index = 2

\* C3: with the empty pattern sequence the call returns false for every name.
C3_EmptyIsFalse ==
    (Returned /\ GivenPatterns = << >>) => ~Result

C3_Witness ==
    Returned /\ GivenPatterns = << >> /\ GivenEvent = "session.idle" /\ ~Result

\* C4: a pattern "<s>.*" matches an event name exactly when the name starts
\* with "<s>." (the dot included).  "tool.*" matches "tool.execute.before",
\* "tool.x" and "tool." and matches neither "tool" nor "toolbox.run"; when <s>
\* is a single segment, every matched name has <s> as its first segment.
C4_PrefixWithDot ==
    (Returned /\ Len(GivenPatterns) = 1 /\ EndsInDotStar(GivenPatterns[1])) =>
        LET s == Stem(GivenPatterns[1])
        IN  /\ Result = HasPrefix(GivenEvent, s \o ".")
            /\ (Result /\ DotFree(s)) => FirstSegment(GivenEvent) = s
            /\ (s = "tool" /\ GivenEvent \in {"tool.execute.before", "tool.x", "tool."})
                   => Result
            /\ (s = "tool" /\ GivenEvent \in {"tool", "toolbox.run"}) => ~Result

\* A name that has the pattern's stem as a leading substring is not matched.
C4_Witness ==
    /\ Returned /\ ~Result
    /\ GivenPatterns = <<"tool.*">> /\ GivenEvent = "toolbox.run"

\* C5: a pattern that is an exact event name (not "*", not ending in ".*")
\* matches a name exactly when the name is the same string: "session.idle"
\* matches "session.idle" and neither "session.idle2" nor "session".
C5_ExactEquality ==
    (/\ Returned /\ Len(GivenPatterns) = 1
     /\ GivenPatterns[1] # "*" /\ ~EndsInDotStar(GivenPatterns[1])) =>
        /\ Result = (GivenEvent = GivenPatterns[1])
        /\ (GivenPatterns[1] = "session.idle"
               /\ GivenEvent \in {"session.idle2", "session"}) => ~Result

\* The pattern is a proper prefix of the name and does not match it.
C5_Witness ==
    /\ Returned /\ ~Result
    /\ GivenPatterns = <<"session.idle">> /\ GivenEvent = "session.idle2"

\* C6: with the patterns <<"file.*", "session.idle">> the call returns true for
\* "file.edited" and "session.idle" and false for "session.created" and
\* "tool.execute.before"; over the catalogue the selected names are exactly
\* the names of the file category and session.idle.
C6_MixedPatterns ==
    (Returned /\ GivenPatterns = <<"file.*", "session.idle">>) =>
        /\ GivenEvent \in {"file.edited", "session.idle"} => Result
        /\ GivenEvent \in {"session.created", "tool.execute.before"} => ~Result
        /\ GivenEvent \in KnownEvents(catalogue) =>
              Result = (GivenEvent \in EventsOfCategory(catalogue, "file")
                                           \cup {"session.idle"})

\* session.idle is selected by the second pattern after the first one failed.
C6_Witness ==
    /\ Returned /\ Result
    /\ GivenPatterns = <<"file.*", "session.idle">> /\ GivenEvent = "session.idle"
    /\ calls[1].index = 1

\* C7: the result depends only on the set of patterns: every sequence with
\* the same elements (any order, any repetition) gives the same result.
C7_OrderAndDuplicates ==
    Returned =>
        \A Q \in SeqsUpTo(Range(GivenPatterns), MaxPatterns) :
            Range(Q) = Range(GivenPatterns) => matchesFilter(GivenEvent, Q) = Result

\* Three patterns, two of them different, the first of which does not match
\* while a later one does.
C7_Witness ==
    /\ Returned /\ Result
    /\ Len(GivenPatterns) = 3
    /\ Cardinality(Range(GivenPatterns)) >= 2
    /\ ~matchesFilter(GivenEvent, <<GivenPatterns[1]>>)

\* A pattern "<segment>.*": a non-empty stem without a dot, then ".*".
IsSegmentWildcard(p) == EndsInDotStar(p) /\ Stem(p) # "" /\ DotFree(Stem(p))

\* C8 as stated: for a pattern that is neither "*" nor a non-empty segment
\* followed by ".*" (such as "", ".*", "**", "*.idle", "tool.*.before",
\* "to*l") the call returns a boolean and returns true only for the name
\* equal to the pattern.
C8_MalformedOnlyEqual ==
    (/\ Returned /\ Len(GivenPatterns) = 1
     /\ GivenPatterns[1] # "*" /\ ~IsSegmentWildcard(GivenPatterns[1])) =>
        /\ Result \in BOOLEAN
        /\ Result => GivenEvent = GivenPatterns[1]

\* C8, amended: for a pattern that is neither "*" nor ends in ".*" (such as
\* "", "**", "*.idle", "tool.*.before", "to*l") the call ends, returns a
\* boolean and returns true only for the name equal to the pattern; a pattern
\* that ends in ".*" is a prefix pattern whatever precedes the ".*", so ".*"
\* matches every name that starts with ".".
C8_MalformedAmended ==
    /\ calls[1].status \in {"running", "done"}
    /\ calls[1].index <= Len(GivenPatterns)
    /\ Result \in BOOLEAN
    /\ (/\ Returned /\ Len(GivenPatterns) = 1
        /\ GivenPatterns[1] # "*" /\ ~EndsInDotStar(GivenPatterns[1])) =>
           (Result => GivenEvent = GivenPatterns[1])
    /\ (Returned /\ GivenPatterns = <<".*">>) => Result = HasPrefix(GivenEvent, ".")

\* A pattern with the wildcard in the middle fails on a name it would select
\* as a glob.
C8_Witness ==
    /\ Returned /\ ~Result
    /\ GivenPatterns = <<"to*l">> /\ GivenEvent = "tool"

(***************************************************************************)
(* Properties of the matcher among the plugin's hooks and the host's       *)
(* listeners, under SpecHost.                                              *)
(***************************************************************************)
Finished(l) == calls[l].status = "done"

SameInputs(l1, l2) == dispatched[l1] = dispatched[l2] /\ filters[l1] = filters[l2]

\* Calls with the same event name and the same patterns have the same result,
\* whatever hook calls and debug toggles came between them, and a call keeps
\* the pattern sequence it was given as it was.
C9_Repeatable ==
    /\ \A l1, l2 \in Listeners :
          (Finished(l1) /\ Finished(l2) /\ SameInputs(l1, l2)) =>
              calls[l1].result = calls[l2].result
    /\ \A l \in Listeners :
          calls[l].status # "idle" => calls[l].patterns = filters[l]

\* A step of a matcher call leaves the plugin's state and the listeners'
\* pattern sets as they are.
C9_NoSideEffect ==
    calls' # calls =>
        /\ UNCHANGED <<debug, logEvents, templates, catalogue, env, out, raised>>
        /\ UNCHANGED filters

\* C9: matchesFilter is a stateless pure function: after any sequence of
\* earlier calls and plugin events (debug toggles included) a call with the
\* same event name and patterns returns the same result, and a call changes
\* neither the plugin's state (debug flag, logEvents, template registry, event
\* catalogue) nor its pattern argument.
C9_StatelessPure == []C9_Repeatable /\ [][C9_NoSideEffect]_vars

\* Two finished calls with the same inputs, one made by each listener, in a
\* plugin that started with debug on and has debug off now.
C9_Witness ==
    /\ Finished(1) /\ Finished(2) /\ SameInputs(1, 2)
    /\ "*" \in Range(filters[1])
    /\ env = <<"true">> /\ ~debug

\* C10: whatever the interleaving of the listeners' calls, a listener's call
\* works on the event and the patterns of that listener and returns what the
\* call returns when it runs alone.
C10_Isolation ==
    \A l \in Listeners :
        /\ calls[l].status # "idle" =>
              /\ calls[l].eventType = dispatched[l]
              /\ calls[l].patterns = filters[l]
        /\ Finished(l) => calls[l].result = matchesFilter(dispatched[l], filters[l])

\* Listener 1 is in the middle of its call (its first pattern examined) while
\* listener 2, with other patterns and another event, has finished with true.
C10_Witness ==
    /\ calls[1].status = "running" /\ calls[1].index = 1
    /\ Finished(2) /\ calls[2].result
    /\ filters[1] # filters[2] /\ dispatched[1] # dispatched[2]

(***************************************************************************)
(* Properties of the plugin's hooks, checked under Spec.                   *)
(***************************************************************************)
\* The five template names of the README.
TemplateNames == {"basic", "security", "notification", "custom-tool", "logging"}

\* The event is a tui.command.execute event whose data.command is a string.
HasCommand(e) ==
    e.type = "tui.command.execute" /\ e.data.kind = "object" /\ e.data.command.kind = "string"

\* The event is the command cmd.
IsCommand(e, cmd) == HasCommand(e) /\ e.data.command.text = cmd

\* The event is a command prpm:template:<name>, and the name it asks for.
IsTemplateRequest(e) == HasCommand(e) /\ HasPrefix(e.data.command.text, "prpm:template:")
RequestedName(e) == SubSeq(e.data.command.text, 15, Len(e.data.command.text))

\* The last n lines of the console output of the latest hook call.
LastLines(lines, n) ==
    IF Len(lines) < n THEN << >> ELSE SubSeq(lines, Len(lines) - n + 1, Len(lines))

\* The lines of the console output that are debug log lines.
IsDebugLine(line) == HasPrefix(line, "[PRPM Debug] ")
NumDebugLines(lines) == Cardinality({i \in 1..Len(lines) : IsDebugLine(lines[i])})

\* The lines after the debug log line, if any: the command's output.
CommandOutput(lines) ==
    IF Len(lines) > 0 /\ IsDebugLine(lines[1]) THEN Tail(lines) ELSE lines

\* The two lines that report a template name as not found.
UnknownTemplateLines(name) ==
    << "[PRPM] Unknown template: " \o name,
       "Available templates: basic, security, notification, custom-tool, logging" >>

\* C11: under index.ts, prpm:template:<name> for a name outside the five
\* template names is handled without an error and prints exactly the
\* "Unknown template" line and the list of the five names, nothing else.
C11_UnknownTemplateReported ==
    [][\A e \in HostEvents :
          (variant = "current" /\ EventHook(e) /\ IsTemplateRequest(e)
              /\ RequestedName(e) \notin TemplateNames)
          => /\ raised' = "none"
             /\ CommandOutput(out') = UnknownTemplateLines(RequestedName(e))]_vars

\* The text the README's registry gives each of the five names.
OwnText(v, name) ==
    LET registry == TemplatesOf(v)
    IN  registry[CHOOSE k \in 1..Len(registry) : registry[k].name = name].text

\* C12: the template registry is never written: in every state it holds
\* exactly the five names, each with the text its source defines.
C12_RegistryReadOnly ==
    /\ Len(templates) = 5
    /\ {templates[k].name : k \in 1..Len(templates)} = TemplateNames
    /\ \A k \in 1..Len(templates) :
          templates[k].text = OwnText(variant, templates[k].name)

\* A lookup of a name that is not in the registry has been handled, with
\* debug turned on at run time before it.
C12_Witness ==
    /\ env = << >> /\ debug
    /\ Len(out) = 3 /\ IsDebugLine(out[1])
    /\ LastLines(out, 2) = UnknownTemplateLines("nope")
    /\ Len(templates) = 5

\* The five lines a listing of the templates prints after its header.
ListingOrder ==
    << "  - basic", "  - security", "  - notification", "  - custom-tool", "  - logging" >>

\* C13: wherever the console shows the header of prpm:templates, the next
\* five lines are basic, security, notification, custom-tool, logging in
\* that order, followed by one footer line that ends the output.
C13_ListingOrder ==
    \A i \in 1..Len(out) :
        out[i] = "\n=== Available Plugin Templates ==="
        => /\ Len(out) = i + 6
           /\ SubSeq(out, i + 1, i + 5) = ListingOrder

\* A listing printed after debug was turned on at run time: the header is
\* the second line, after the debug log line of the command.
C13_Witness ==
    /\ env # <<"true">> /\ debug
    /\ Len(out) = 8
    /\ out[1] = "[PRPM Debug] tui.command.execute {\"command\":\"prpm:templates\"}..."
    /\ out[2] = "\n=== Available Plugin Templates ==="
    /\ out[6] = "  - custom-tool"

\* C14: under index.ts the names prpm:templates lists are the five names,
\* and prpm:template:<name> for each of them prints the header of that
\* name, that name's own text and the footer, never "Unknown template".
C14_ListingAgreesWithLookup ==
    [][\A e \in HostEvents :
          (variant = "current" /\ EventHook(e))
          => /\ IsCommand(e, "prpm:templates")
                => {SubSeq(CommandOutput(out')[k], 5, Len(CommandOutput(out')[k])) :
                        k \in 2..(Len(CommandOutput(out')) - 1)} = TemplateNames
             /\ (IsTemplateRequest(e) /\ RequestedName(e) \in TemplateNames)
                => CommandOutput(out') =
                      << "\n=== Template: " \o RequestedName(e) \o " ===\n",
                         OwnText("current", RequestedName(e)),
                         "\n=== End Template ===" >>]_vars

\* The template custom-tool has been looked up and printed.
C14_Witness ==
    /\ variant = "current"
    /\ out = << "\n=== Template: custom-tool ===\n",
                "export default CustomToolPlugin;",
                "\n=== End Template ===" >>

\* The debug flag the README's commands leave behind: on after prpm:debug:on,
\* off after prpm:debug:off, as it was after anything else.
FlagAfter(e, flag) ==
    IF IsCommand(e, "prpm:debug:on") THEN TRUE
    ELSE IF IsCommand(e, "prpm:debug:off") THEN FALSE
    ELSE flag

\* C15: every event the hook handles leaves the debug flag at the effect of
\* the most recent prpm:debug:on / prpm:debug:off (on, off, or unchanged by
\* any other event), and the event is logged exactly when the flag left by
\* the events before it is on.
C15_DebugFollowsCommands ==
    [][\A e \in HostEvents :
          EventHook(e)
          => /\ debug' = FlagAfter(e, debug)
             /\ (NumDebugLines(out') = 1) = debug]_vars

C19_NeverRaises == raised = "none"

\* The subcommands the README documents.
IsRecognised(subCommand) ==
    \/ subCommand \in {"events", "debug:on", "debug:off", "templates"}
    \/ HasPrefix(subCommand, "template:")

\* The event carries a recognised command: its type is tui.command.execute
\* and its command is "prpm:" followed by a recognised subcommand.
CarriesCommand(e) ==
    /\ HasCommand(e)
    /\ HasPrefix(e.data.command.text, "prpm:")
    /\ IsRecognised(SubSeq(e.data.command.text, 6, Len(e.data.command.text)))

\* C20: under index.ts, an event that carries no recognised command (another
\* type, no command, a command without "prpm:", an unrecognised subcommand)
\* prints nothing beyond its debug log line and leaves the debug flag, the
\* filter and the registry as they were.
C20_OnlyPrpmCommands ==
    [][\A e \in HostEvents :
          (variant = "current" /\ EventHook(e) /\ ~CarriesCommand(e))
          => /\ CommandOutput(out') = << >>
             /\ debug' = debug
             /\ logEvents' = logEvents
             /\ templates' = templates
             /\ catalogue' = catalogue]_vars

\* With debug on, a file.edited event whose data carries the command
\* prpm:debug:off has been handled: it was logged and debug is still on.
C20_Witness ==
    /\ variant = "current" /\ debug
    /\ out = << "[PRPM Debug] file.edited {\"command\":\"prpm:debug:off\"}..." >>

(***************************************************************************)
(* The two statements of the prefix rule and the two matchers, checked     *)
(* under SpecMatch.                                                        *)
(***************************************************************************)
\* The spec's rule for a pattern ending in ".*": strip the trailing "*",
\* keep the trailing ".", and test whether the event name starts with it.
SpecPrefixRule(e, p) == HasPrefix(e, SubSeq(p, 1, Len(p) - 1))

\* C18: for every single pattern ending in ".*" the matcher of index.ts
\* returns what the spec's rule gives, and on every input (event name and
\* pattern list) the matcher of the legacy source returns what the matcher
\* of index.ts returns.
C18_RulesAndMatchersAgree ==
    Returned
    => /\ (Len(GivenPatterns) = 1 /\ EndsInDotStar(GivenPatterns[1]))
          => Result = SpecPrefixRule(GivenEvent, GivenPatterns[1])
       /\ LegacyMatchesFilter(GivenEvent, GivenPatterns) = Result

\* The pattern "a.*" was matched against "a.": the event name is the kept
\* prefix itself, and both matchers return true.
C18_Witness ==
    /\ Returned /\ Result
    /\ GivenPatterns = <<"a.*">> /\ GivenEvent = "a."
    /\ LegacyMatchesFilter(GivenEvent, GivenPatterns)

(***************************************************************************)
(* Further properties of the plugin's hooks, checked under Spec.           *)
(***************************************************************************)
\* The output of a lookup reports the name as found: it opens with the
\* header of that name.
ReportedFound(lines, name) ==
    /\ Len(CommandOutput(lines)) = 3
    /\ CommandOutput(lines)[1] = "\n=== Template: " \o name \o " ===\n"

\* The output of a lookup reports the name as unknown.
ReportedUnknown(lines, name) ==
    /\ Len(CommandOutput(lines)) = 2
    /\ CommandOutput(lines)[1] = "[PRPM] Unknown template: " \o name

\* C21: every text of the registry is a non-empty string, and under
\* index.ts prpm:template:<name> reports the name as found if and only if
\* it is a key of the registry, and as unknown otherwise.
C21_FoundIffRegistered ==
    /\ [](\A k \in 1..Len(templates) : templates[k].text # "")
    /\ [][\A e \in HostEvents :
             (variant = "current" /\ EventHook(e) /\ IsTemplateRequest(e))
             => LET name == RequestedName(e)
                    registered == \E k \in 1..Len(templates) : templates[k].name = name
                IN  /\ ReportedFound(out', name) = registered
                    /\ ReportedUnknown(out', name) = ~registered]_vars

\* The line the README describes for an event: the prefix, the type and,
\* for data that is an object, a space, the first 100 characters of its
\* JSON text at most, and "...".
DescribedLine(e) ==
    LET json == JSONStringify(e.data)
        kept == SubSeq(json, 1, IF Len(json) < 100 THEN Len(json) ELSE 100)
    IN  "[PRPM Debug] " \o e.type
            \o (IF e.data.kind = "object" THEN " " \o kept \o "..." ELSE "")

\* C22: in both sources the debug log line of an event is "[PRPM Debug] ",
\* the type and, exactly when the data is truthy, a space, at most the
\* first 100 characters of the JSON text and "..."; after the type the
\* line is never longer than 1 + 100 + 3 characters.
C22_FormatEvent ==
    [][\A e \in HostEvents :
          (EventHook(e) /\ debug)
          => /\ Len(out') >= 1
             /\ out'[1] = DescribedLine(e)
             /\ Len(out'[1]) <= Len("[PRPM Debug] ") + Len(e.type) + 104]_vars

\* A command whose JSON text is longer than 100 characters was logged: the
\* line ends with the first 100 characters of the text and "...".
C22_Witness ==
    /\ debug /\ Len(out) >= 1
    /\ Len("{\"command\":\"" \o LongCommand \o "\"}") > 100
    /\ out[1] = "[PRPM Debug] tui.command.execute "
                    \o SubSeq("{\"command\":\"" \o LongCommand \o "\"}", 1, 100) \o "..."

\* C23: under index.ts, prpm:debug:on received while debug is off prints no
\* debug log line and leaves debug on; prpm:debug:off received while debug
\* is on prints the debug log line of its own event first and leaves debug
\* off.
C23_LogDecidedBeforeCommand ==
    [][\A e \in HostEvents :
          (variant = "current" /\ EventHook(e))
          => /\ (IsCommand(e, "prpm:debug:on") /\ ~debug)
                => (out' = << "[PRPM] Debug mode enabled" >> /\ debug')
             /\ (IsCommand(e, "prpm:debug:off") /\ debug)
                => /\ out' = << "[PRPM Debug] tui.command.execute {\"command\":\"prpm:debug:off\"}...",
                               "[PRPM] Debug mode disabled" >>
                   /\ ~debug']_vars

\* prpm:debug:off has been handled while debug was on: the event itself was
\* logged, and debug is now off.
C23_Witness ==
    /\ variant = "current" /\ ~debug
    /\ Len(out) = 2 /\ IsDebugLine(out[1])
    /\ out[2] = "[PRPM] Debug mode disabled"

\* C24: the filter is ["*"] in every state, and under index.ts the debug
\* flag changes only in the event hook handling a tui.command.execute event
\* whose command is exactly prpm:debug:on or prpm:debug:off: every other
\* event and both tool hooks leave it as it was.
C24_ConfigFrame ==
    /\ [](logEvents = <<"*">>)
    /\ [][variant = "current"
          => /\ debug' # debug
                => \E e \in HostEvents :
                      /\ EventHook(e)
                      /\ IsCommand(e, "prpm:debug:on") \/ IsCommand(e, "prpm:debug:off")
             /\ \A e \in HostEvents :
                   (EventHook(e) /\ ~IsCommand(e, "prpm:debug:on")
                        /\ ~IsCommand(e, "prpm:debug:off"))
                   => debug' = debug
             /\ \A tool \in ToolNames :
                   (ToolExecuteBefore(tool) \/ ToolExecuteAfter(tool, "done"))
                   => debug' = debug]_vars

\* With debug on, the command prpm:debug:offx has been handled: it was
\* logged, printed nothing, and debug is still on.
C24_Witness ==
    /\ variant = "current" /\ debug /\ logEvents = <<"*">>
    /\ out = << "[PRPM Debug] tui.command.execute {\"command\":\"prpm:debug:offx\"}..." >>

====
